---- MODULE Spec2Model ----
(***************************************************************************)
(* Chapa payment workflow of alx_travel_app/listings: the Initialize and   *)
(* Verify API views (views.py) over the Booking and Payment tables         *)
(* (models.py), with the gateway's answers as inputs.                      *)
(*                                                                         *)
(* Requests are those that passed the views' IsAuthenticated permission    *)
(* and reached post / get.                                                 *)
(*                                                                         *)
(* Spec      runs the two handlers one request at a time (each action is   *)
(*           one whole handler).                                           *)
(* SpecConc  runs up to MaxInFlight requests concurrently; a handler is    *)
(*           split at its blocking gateway call and at each of its         *)
(*           separately committed database statements (settings.py sets no *)
(*           ATOMIC_REQUESTS, so every ORM statement autocommits).         *)
(* SpecDeploy is Spec with restarts that set or unset the gateway key.     *)
(* SpecAmount applies _calculate_booking_amount to a range of bookings.    *)
(***************************************************************************)
EXTENDS Integers, Sequences, FiniteSets, TLC

\* ------------------------------------------------------------------ bounds
\* Number of requests handled in one behaviour (also the logical clock).
MaxRequests == 3
\* Number of requests that may be in flight together under SpecConc.
MaxInFlight == 2
\* Latest day a booking of the amount calculation can start or end on.
MaxDay == 4

\* ------------------------------------------------------ values and fixtures
\* A key that is absent from a JSON object / a request payload.
Missing == "<missing>"

\* Decimal values: unscaled integer u and scale s (value = u * 10^-s).
Dec(u, s) == [u |-> u, s |-> s]
NoDecimal == Dec(0, 0)

\* models.py BookingStatus / PaymentStatus
BookingStatus == {"pending", "confirmed", "cancelled"}
PaymentStatus == {"pending", "success", "failed"}

\* The Booking rows of the database (with the price of their Listing).
\* Booking 1 spans three nights; booking 2 ends before it starts.
BookingIds == {1, 2}
BookingTable ==
  [b \in BookingIds |->
     IF b = 1
     THEN [price_per_night |-> Dec(10000, 2), start_date |-> 1, end_date |-> 4]
     ELSE [price_per_night |-> Dec(2550, 2), start_date |-> 9, end_date |-> 7]]

\* booking_id values a request can carry: 0 is a missing/falsy id, 7 exists
\* in no table.
RequestBookingIds == {0, 7} \cup BookingIds
PayloadEmails == {"", "customer@example.com"}
UserEmails == {"", "user@example.com"}

\* uuid.uuid4().hex[:8]
HexSuffixes == {"0a1b2c3d", "9e8f7a6b"}

\* settings.CHAPA_CURRENCY
DefaultCurrency == "ETB"

\* JSON null in a JSONField
NullJson == [null |-> TRUE]
NoData == [present |-> FALSE]

\* --------------------------------------------------------- gateway answers
Unreachable == [kind |-> "unreachable", code |-> 0,
                body |-> [status |-> "", data |-> NoData]]
NoReply == [kind |-> "none", code |-> 0,
            body |-> [status |-> "", data |-> NoData]]
Http(code, body) == [kind |-> "http", code |-> code, body |-> body]

InitData(url, ref, cur) ==
  [present |-> TRUE, checkout_url |-> url, reference |-> ref, currency |-> cur]

\* What POST {base}/transaction/initialize can answer.
InitReplies ==
  { Unreachable,
    Http(500, [status |-> "failed", data |-> NoData]),
    Http(200, [status |-> "failed",
               data |-> InitData("https://checkout.chapa.co/x", "CH-1", Missing)]),
    Http(200, [status |-> "success", data |-> NoData]),
    Http(201, [status |-> "success",
               data |-> InitData("https://checkout.chapa.co/x", "CH-1", Missing)]),
    Http(200, [status |-> "success",
               data |-> InitData(Missing, Missing, "USD")]) }

VerifyData(st, ref) == [present |-> TRUE, status |-> st, reference |-> ref]

\* What GET {base}/transaction/verify/{tx_ref} can answer.
VerifyReplies ==
  { Unreachable,
    Http(500, [status |-> "success", data |-> VerifyData("success", "CH-2")]),
    Http(200, [status |-> "success", data |-> VerifyData("success", "CH-2")]),
    Http(200, [status |-> "success", data |-> VerifyData("success", Missing)]),
    Http(200, [status |-> "success", data |-> VerifyData("success", "")]),
    Http(200, [status |-> "success", data |-> VerifyData("pending", "CH-2")]),
    Http(200, [status |-> "failed", data |-> NoData]) }

\* The answers the concurrent specification draws from: one refusal and one
\* acceptance of initialize; one HTTP error, one success and one non-success
\* of verify.
ConcInitReplies ==
  { Unreachable,
    Http(201, [status |-> "success",
               data |-> InitData("https://checkout.chapa.co/x", "CH-1", Missing)]) }
ConcVerifyReplies ==
  { Http(500, [status |-> "failed", data |-> NoData]),
    Http(200, [status |-> "success", data |-> VerifyData("success", "CH-2")]),
    Http(200, [status |-> "success", data |-> VerifyData("pending", "CH-2")]) }

\* dict.get(key, default)
Get(value, default) == IF value = Missing THEN default ELSE value

\* ------------------------------------------------------------------- state
VARIABLES
  bookingStatus,     \* Booking.status of every Booking row
  payments,          \* the Payment table: a set of rows
  notifications,     \* messages enqueued for send_payment_confirmation_email
  gatewayCalls,      \* number of outbound gateway requests issued
  clock,             \* number of requests accepted so far (logical time)
  secretConfigured,  \* settings.CHAPA_SECRET_KEY is non-empty
  taskAvailable,     \* the import of .tasks succeeded
  procs,             \* SpecConc: the requests in flight
  last,              \* the request completed last, with its response
  calc               \* SpecAmount: a booking and the amount computed for it

vars == <<bookingStatus, payments, notifications, gatewayCalls, clock,
          secretConfigured, taskAvailable, procs, last, calc>>

\* ---------------------------------------------------------------- responses
EmptyBody ==
  [tx_ref |-> Missing, checkout_url |-> Missing, booking_id |-> 0,
   amount |-> NoDecimal, currency |-> Missing, status |-> Missing,
   chapa_reference |-> Missing, raw_chapa_status |-> Missing]

\* rest_framework Response(body, status=code); code 500 is an unhandled
\* exception escaping the view.
Response(code, body) == [code |-> code, body |-> body]

NoResponse == Response(0, EmptyBody)

\* ------------------------------------------------------- Amount Calculator
\* Variant: the span in days, not floored at zero.
Nights_NoFloor(booking) == booking.end_date - booking.start_date

\* Booking.nights
Nights(booking) ==
  LET delta == booking.end_date - booking.start_date
  IN IF delta > 0 THEN delta ELSE 0

Pow10(n) == IF n = 0 THEN 1 ELSE IF n = 1 THEN 10 ELSE IF n = 2 THEN 100 ELSE 1000

\* Decimal.quantize(Decimal("0.01")) under the default context
\* (ROUND_HALF_EVEN).
Quantize2(d) ==
  IF d.s = 2 THEN d
  ELSE IF d.s < 2 THEN Dec(d.u * Pow10(2 - d.s), 2)
  ELSE LET div == Pow10(d.s - 2)
           mag == IF d.u < 0 THEN -d.u ELSE d.u
           q == mag \div div
           r == mag % div
           up == (2 * r > div) \/ (2 * r = div /\ q % 2 = 1)
           m == IF up THEN q + 1 ELSE q
       IN Dec(IF d.u < 0 THEN -m ELSE m, 2)

\* _calculate_booking_amount
CalculateBookingAmount(booking) ==
  LET nights == IF Nights(booking) = 0 THEN 1 ELSE Nights(booking)
      price_per_night == booking.price_per_night
      amount == Dec(price_per_night.u * nights, price_per_night.s)
  IN Quantize2(amount)


\* ------------------------------------------------------------ Payment table
\* booking.payment: the reverse accessor of Payment.booking (OneToOneField)
HasPayment(pays, b) == \E p \in pays : p.booking = b
PaymentOf(pays, b) == CHOOSE p \in pays : p.booking = b

\* Variant: booking is a plain ForeignKey, only tx_ref is unique.
ViolatesUnique_TxRefOnly(pays, row) ==
  \E p \in pays : p.tx_ref = row.tx_ref

\* The unique constraints a Payment INSERT is checked against: the
\* OneToOneField on booking and unique=True on tx_ref.
ViolatesUnique(pays, row) ==
  \/ \E p \in pays : p.booking = row.booking
  \/ \E p \in pays : p.tx_ref = row.tx_ref

\* Payment.objects.create(...): the row is inserted, or the database raises
\* IntegrityError and the table is left as it was.
CreatePayment(pays, row) ==
  IF ViolatesUnique(pays, row)
  THEN [ok |-> FALSE, payments |-> pays]
  ELSE [ok |-> TRUE, payments |-> pays \cup {row}]

\* Variant: an UPDATE without the WHERE clause on the primary key.
SavePayment_AllRows(pays, tx_ref, changes) == { changes @@ p : p \in pays }

\* Variant: a write that is refused once the row has left pending.
SavePayment_OnlyPending(pays, tx_ref, changes) ==
  { IF p.tx_ref = tx_ref /\ p.status = "pending" THEN changes @@ p ELSE p :
      p \in pays }

\* payment.save(update_fields=[...]): UPDATE of the named columns of the row
\* with the object's primary key (tx_ref stands for the key: it is unique and
\* never written again).
SavePayment(pays, tx_ref, changes) ==
  { IF p.tx_ref = tx_ref THEN changes @@ p ELSE p : p \in pays }

\* get_object_or_404(Payment, tx_ref=tx_ref)
HasTxRef(pays, tx_ref) == \E p \in pays : p.tx_ref = tx_ref
PaymentByTxRef(pays, tx_ref) == CHOOSE p \in pays : p.tx_ref = tx_ref

\* Variant: an empty key is handed out without raising.
SecretMissing_Never(secret) == FALSE

\* _get_chapa_secret_key: raises RuntimeError when CHAPA_SECRET_KEY is empty.
SecretMissing(secret) == ~secret

\* -------------------------------------------------------------- Initialize
\* Variant: a placeholder address stands in when neither source has one.
ResolveEmail_Placeholder(email, user_email) ==
  IF email # "" THEN email
  ELSE IF user_email # "" THEN user_email ELSE "unknown@example.com"

\* email = request.data.get("email") or request.user.email
ResolveEmail(email, user_email) == IF email # "" THEN email ELSE user_email

\* f"booking-{booking.id}-{uuid.uuid4().hex[:8]}"
TxRef(b, hex) == "booking-" \o ToString(b) \o "-" \o hex

TxRefs == { TxRef(b, h) : b \in BookingIds, h \in HexSuffixes }
\* tx_ref values a Verify request can carry: the last one matches no row.
RequestTxRefs == TxRefs \cup {"booking-1-00000000"}

\* Variant: the guard is missing.
DuplicateSuccess_Never(pays, b) == FALSE

\* The duplicate-payment guard.
DuplicateSuccess(pays, b) ==
  HasPayment(pays, b) /\ PaymentOf(pays, b).status = "success"

\* Variant: the email is validated before the Booking is looked up.
PostCheck_EmailFirst(pays, secret, req) ==
  LET email == ResolveEmail(req.email, req.user_email)
      b == req.booking_id
  IN IF b = 0
     THEN [code |-> 400, body |-> EmptyBody, email |-> ""]
     ELSE IF email = ""
     THEN [code |-> 400, body |-> EmptyBody, email |-> ""]
     ELSE IF b \notin BookingIds
     THEN [code |-> 404, body |-> EmptyBody, email |-> ""]
     ELSE IF DuplicateSuccess(pays, b)
     THEN [code |-> 400,
           body |-> [EmptyBody EXCEPT !.tx_ref = PaymentOf(pays, b).tx_ref],
           email |-> email]
     ELSE IF SecretMissing(secret)
     THEN [code |-> 500, body |-> EmptyBody, email |-> email]
     ELSE [code |-> 0, body |-> EmptyBody, email |-> email]

\* The view up to the outbound call: code 0 means the gateway is called next.
PostCheck(pays, secret, req) ==
  LET email == ResolveEmail(req.email, req.user_email)
      b == req.booking_id
  IN IF b = 0
     THEN [code |-> 400, body |-> EmptyBody, email |-> ""]
     ELSE IF b \notin BookingIds
     THEN [code |-> 404, body |-> EmptyBody, email |-> ""]
     ELSE IF email = ""
     THEN [code |-> 400, body |-> EmptyBody, email |-> ""]
     ELSE IF DuplicateSuccess(pays, b)
     THEN [code |-> 400,
           body |-> [EmptyBody EXCEPT !.tx_ref = PaymentOf(pays, b).tx_ref],
           email |-> email]
     ELSE IF SecretMissing(secret)
     THEN [code |-> 500, body |-> EmptyBody, email |-> email]
     ELSE [code |-> 0, body |-> EmptyBody, email |-> email]

\* Variant: the body's status field is not looked at.
InitAccepted_AnyStatus(reply) ==
  /\ reply.kind = "http"
  /\ reply.code \in {200, 201}
  /\ reply.body.data.present

\* The gateway's answer to initialize is usable.
InitAccepted(reply) ==
  /\ reply.kind = "http"
  /\ reply.code \in {200, 201}
  /\ reply.body.status = "success"
  /\ reply.body.data.present

\* The row Payment.objects.create is called with.
NewPayment(b, tx_ref, amount, body, now) ==
  [booking |-> b,
   tx_ref |-> tx_ref,
   chapa_reference |-> Get(body.data.reference, ""),
   amount |-> amount,
   currency |-> IF Get(body.data.currency, "") # ""
                THEN body.data.currency ELSE DefaultCurrency,
   status |-> "pending",
   checkout_url |-> Get(body.data.checkout_url, ""),
   raw_initialize_response |-> body,
   raw_verify_response |-> NullJson,
   updated_at |-> now]

\* booking.status = BookingStatus.PENDING; booking.save(update_fields=["status"])
SaveBookingPending(bstat, b) == [bstat EXCEPT ![b] = "pending"]

\* The 201 body.
InitCreated(payment) ==
  Response(201,
    [EmptyBody EXCEPT !.checkout_url = payment.checkout_url,
                      !.tx_ref = payment.tx_ref,
                      !.booking_id = payment.booking,
                      !.amount = payment.amount,
                      !.currency = payment.currency,
                      !.status = payment.status])

\* InitializeChapaPaymentAPIView.post, run without interruption.
PostResult(pays, bstat, secret, req, reply, now) ==
  LET chk == PostCheck(pays, secret, req)
      b == req.booking_id
      tx_ref == TxRef(b, req.hex)
      base == [payments |-> pays, bookingStatus |-> bstat, called |-> FALSE,
               response |-> NoResponse, tx_ref |-> "", email |-> chk.email,
               reply |-> NoReply]
  IN IF chk.code # 0
     THEN [base EXCEPT !.response = Response(chk.code, chk.body)]
     ELSE LET sent == [base EXCEPT !.called = TRUE, !.tx_ref = tx_ref,
                                   !.reply = reply]
          IN IF ~InitAccepted(reply)
             THEN [sent EXCEPT !.response = Response(502, EmptyBody)]
             ELSE LET row == NewPayment(b, tx_ref,
                                CalculateBookingAmount(BookingTable[b]),
                                reply.body, now)
                      ins == CreatePayment(pays, row)
                  IN IF ~ins.ok
                     THEN [sent EXCEPT !.response = Response(500, EmptyBody)]
                     ELSE [sent EXCEPT !.payments = ins.payments,
                                       !.bookingStatus = SaveBookingPending(bstat, b),
                                       !.response = InitCreated(row)]

Initialize(booking_id, email, user_email, hex, reply) ==
  /\ clock < MaxRequests
  /\ LET req == [booking_id |-> booking_id, email |-> email,
                 user_email |-> user_email, hex |-> hex]
         r == PostResult(payments, bookingStatus, secretConfigured, req,
                         reply, clock + 1)
     IN /\ payments' = r.payments
        /\ bookingStatus' = r.bookingStatus
        /\ gatewayCalls' = IF r.called THEN gatewayCalls + 1 ELSE gatewayCalls
        /\ last' = [op |-> "init", called |-> r.called, enqueue |-> "none",
                    response |-> r.response]
  /\ clock' = clock + 1
  /\ UNCHANGED <<calc, notifications, secretConfigured, taskAvailable, procs>>

\* ------------------------------------------------------------------ Verify
\* Variant: the HTTP status of the answer is not looked at.
VerifyAnswered_AnyStatus(reply) == reply.kind = "http"

\* requests.get raised no RequestException and response.status_code == 200
VerifyAnswered(reply) == reply.kind = "http" /\ reply.code = 200

\* Variant: only the top-level status of the answer is looked at.
VerifySucceeded_TopLevelOnly(body) == body.status = "success"

\* chapa_status == "success" and chapa_tx_status == "success"
VerifySucceeded(body) ==
  /\ body.status = "success"
  /\ body.data.present
  /\ body.data.status = "success"

\* chapa_data.get("status")
RawChapaStatus(body) == IF body.data.present THEN body.data.status ELSE Missing

\* Variant: chapa_data.get("reference", "") without the fallback.
NewReference_NoFallback(body, old) ==
  IF body.data.present THEN Get(body.data.reference, "") ELSE old

\* chapa_data.get("reference") or payment.chapa_reference
NewReference(body, old) ==
  IF body.data.present /\ body.data.reference \notin {Missing, ""}
  THEN body.data.reference ELSE old

\* The columns the success branch writes.
SuccessChanges(payment, body, now) ==
  [status |-> "success",
   chapa_reference |-> NewReference(body, payment.chapa_reference),
   raw_verify_response |-> body,
   updated_at |-> now]

\* Variant: the failure branch leaves raw_verify_response out of
\* update_fields.
FailureChanges_NoRaw(payment, body, now) ==
  [status |-> "failed",
   updated_at |-> now]

\* Variant: the failure branch does not assign payment.status.
FailureChanges_StatusKept(payment, body, now) ==
  [raw_verify_response |-> body,
   updated_at |-> now]

\* The columns the failure branch writes.
FailureChanges(payment, body, now) ==
  [status |-> "failed",
   raw_verify_response |-> body,
   updated_at |-> now]

\* booking.status = BookingStatus.CONFIRMED; booking.save(update_fields=["status"])
SaveBookingConfirmed(bstat, b) == [bstat EXCEPT ![b] = "confirmed"]

\* def send_payment_confirmation_email(booking_id: int, payment_id: int)
TaskParameters == {"booking_id", "payment_id"}

\* Variant: the message is put on the queue twice.
Enqueue_Twice(queue, available, outcome, b, tx_ref) ==
  IF available /\ outcome = "ok"
  THEN Append(Append(queue, [booking_id |-> b, tx_ref |-> tx_ref]),
              [booking_id |-> b, tx_ref |-> tx_ref])
  ELSE queue

\* send_payment_confirmation_email.delay(booking_id=..., tx_ref=...): the
\* message is put on the queue, or delay raises and the view logs it.
Enqueue(queue, available, outcome, b, tx_ref) ==
  IF available /\ outcome = "ok"
  THEN Append(queue, [booking_id |-> b, tx_ref |-> tx_ref])
  ELSE queue

EnqueueOutcomes == {"ok", "raise"}

\* Variant: an exception of the enqueue reaches the caller.
AfterEnqueue_Propagates(available, outcome, response) ==
  IF ~available \/ outcome = "raise"
  THEN Response(500, EmptyBody) ELSE response

\* if send_payment_confirmation_email is not None: try ... except Exception:
\* logger.exception(...) -- the response does not depend on the enqueue.
AfterEnqueue(available, outcome, response) == response

VerifyOk(payment) ==
  Response(200,
    [EmptyBody EXCEPT !.status = payment.status,
                      !.booking_id = payment.booking,
                      !.amount = payment.amount,
                      !.currency = payment.currency,
                      !.chapa_reference = payment.chapa_reference])

VerifyFailed(payment, body) ==
  Response(400,
    [EmptyBody EXCEPT !.status = payment.status,
                      !.booking_id = payment.booking,
                      !.amount = payment.amount,
                      !.currency = payment.currency,
                      !.raw_chapa_status = RawChapaStatus(body)])

\* VerifyChapaPaymentAPIView.get, run without interruption.
GetResult(pays, bstat, queue, secret, available, tx_ref, reply, outcome, now) ==
  LET base == [payments |-> pays, bookingStatus |-> bstat,
               notifications |-> queue, called |-> FALSE,
               response |-> NoResponse, reply |-> NoReply,
               enqueue |-> "none"]
  IN IF ~HasTxRef(pays, tx_ref)
     THEN [base EXCEPT !.response = Response(404, EmptyBody)]
     ELSE IF SecretMissing(secret)
     THEN [base EXCEPT !.response = Response(500, EmptyBody)]
     ELSE LET payment == PaymentByTxRef(pays, tx_ref)
              sent == [base EXCEPT !.called = TRUE, !.reply = reply]
          IN IF ~VerifyAnswered(reply)
             THEN [sent EXCEPT !.response = Response(502, EmptyBody)]
             ELSE IF VerifySucceeded(reply.body)
             THEN LET ch == SuccessChanges(payment, reply.body, now)
                  IN [sent EXCEPT
                        !.payments = SavePayment(pays, tx_ref, ch),
                        !.bookingStatus = SaveBookingConfirmed(bstat, payment.booking),
                        !.notifications = Enqueue(queue, available, outcome,
                                                  payment.booking, tx_ref),
                        !.enqueue = IF ~available THEN "unavailable" ELSE outcome,
                        !.response = AfterEnqueue(available, outcome,
                                                  VerifyOk(ch @@ payment))]
             ELSE LET ch == FailureChanges(payment, reply.body, now)
                  IN [sent EXCEPT
                        !.payments = SavePayment(pays, tx_ref, ch),
                        !.response = VerifyFailed(ch @@ payment, reply.body)]

Verify(tx_ref, reply, outcome) ==
  /\ clock < MaxRequests
  /\ LET r == GetResult(payments, bookingStatus, notifications,
                        secretConfigured, taskAvailable, tx_ref, reply,
                        outcome, clock + 1)
     IN /\ payments' = r.payments
        /\ bookingStatus' = r.bookingStatus
        /\ notifications' = r.notifications
        /\ gatewayCalls' = IF r.called THEN gatewayCalls + 1 ELSE gatewayCalls
        /\ last' = [op |-> "verify", called |-> r.called,
                    enqueue |-> r.enqueue, response |-> r.response]
  /\ clock' = clock + 1
  /\ UNCHANGED <<calc, secretConfigured, taskAvailable, procs>>

\* ----------------------------------------------------------- specifications
Idle == [pc |-> "idle"]

NoRequest ==
  [op |-> "none", called |-> FALSE, enqueue |-> "none",
   response |-> NoResponse]

\* No amount calculation is under study.
NoCalculation ==
  [booking |-> [price_per_night |-> NoDecimal, start_date |-> 0, end_date |-> 0],
   amount |-> NoDecimal, done |-> FALSE]

\* Bookings were created in status pending and no payment was started yet.
Init ==
  /\ bookingStatus = [b \in BookingIds |-> "pending"]
  /\ payments = {}
  /\ notifications = <<>>
  /\ gatewayCalls = 0
  /\ clock = 0
  /\ secretConfigured \in BOOLEAN
  /\ taskAvailable \in BOOLEAN
  /\ procs = [i \in 1..MaxInFlight |-> Idle]
  /\ last = NoRequest
  /\ calc = NoCalculation

Next ==
  \/ \E booking_id \in RequestBookingIds, email \in PayloadEmails,
        user_email \in UserEmails, hex \in HexSuffixes, reply \in InitReplies :
       Initialize(booking_id, email, user_email, hex, reply)
  \/ \E tx_ref \in RequestTxRefs, reply \in VerifyReplies,
        outcome \in EnqueueOutcomes :
       Verify(tx_ref, reply, outcome)

Spec == Init /\ [][Next]_vars

\* The server is restarted with CHAPA_SECRET_KEY set or unset in its
\* environment; the database stays as it is.
Reconfigure ==
  /\ secretConfigured' = ~secretConfigured
  /\ UNCHANGED <<calc, bookingStatus, payments, notifications, gatewayCalls,
                 clock, taskAvailable, procs, last>>

NextDeploy == Next \/ Reconfigure

SpecDeploy == Init /\ [][NextDeploy]_vars

\* ------------------------------------------------------ concurrent requests
\* A request is taken by the first free worker.
FreeWorker(i) ==
  /\ procs[i].pc = "idle"
  /\ \A j \in DOMAIN procs : j < i => procs[j].pc # "idle"

Completed(op, called, enqueue, response) ==
  [op |-> op, called |-> called, enqueue |-> enqueue, response |-> response]

\* post, from its entry to the outbound requests.post call.
InitStart(i, booking_id, email, user_email, hex) ==
  /\ clock < MaxRequests
  /\ FreeWorker(i)
  /\ LET req == [booking_id |-> booking_id, email |-> email,
                 user_email |-> user_email, hex |-> hex]
         chk == PostCheck(payments, secretConfigured, req)
     IN IF chk.code # 0
        THEN /\ last' = Completed("init", FALSE, "none",
                                   Response(chk.code, chk.body))
             /\ UNCHANGED <<procs, gatewayCalls>>
        ELSE /\ procs' = [procs EXCEPT ![i] =
                            [pc |-> "init_wait", booking |-> booking_id,
                             tx_ref |-> TxRef(booking_id, hex),
                             amount |-> CalculateBookingAmount(
                                          BookingTable[booking_id])]]
             /\ gatewayCalls' = gatewayCalls + 1
             /\ UNCHANGED last
  /\ clock' = clock + 1
  /\ UNCHANGED <<calc, bookingStatus, payments, notifications, secretConfigured,
                 taskAvailable>>

\* post, from the gateway's answer to Payment.objects.create.
InitReply(i, reply) ==
  /\ procs[i].pc = "init_wait"
  /\ IF ~InitAccepted(reply)
     THEN /\ last' = Completed("init", TRUE, "none", Response(502, EmptyBody))
          /\ procs' = [procs EXCEPT ![i] = Idle]
          /\ UNCHANGED payments
     ELSE LET row == NewPayment(procs[i].booking, procs[i].tx_ref,
                                procs[i].amount, reply.body, clock)
              ins == CreatePayment(payments, row)
          IN IF ~ins.ok
             THEN /\ last' = Completed("init", TRUE, "none",
                                        Response(500, EmptyBody))
                  /\ procs' = [procs EXCEPT ![i] = Idle]
                  /\ UNCHANGED payments
             ELSE /\ payments' = ins.payments
                  /\ procs' = [procs EXCEPT ![i] =
                                 [pc |-> "init_created", payment |-> row]]
                  /\ UNCHANGED last
  /\ UNCHANGED <<calc, bookingStatus, notifications, gatewayCalls, clock,
                 secretConfigured, taskAvailable>>

\* post, from booking.save to the 201 response.
InitFinish(i) ==
  /\ procs[i].pc = "init_created"
  /\ bookingStatus' = SaveBookingPending(bookingStatus, procs[i].payment.booking)
  /\ last' = Completed("init", TRUE, "none", InitCreated(procs[i].payment))
  /\ procs' = [procs EXCEPT ![i] = Idle]
  /\ UNCHANGED <<calc, payments, notifications, gatewayCalls, clock,
                 secretConfigured, taskAvailable>>

\* get, from its entry to the outbound requests.get call.
VerifyStart(i, tx_ref) ==
  /\ clock < MaxRequests
  /\ FreeWorker(i)
  /\ IF ~HasTxRef(payments, tx_ref)
     THEN /\ last' = Completed("verify", FALSE, "none", Response(404, EmptyBody))
          /\ UNCHANGED <<procs, gatewayCalls>>
     ELSE IF SecretMissing(secretConfigured)
     THEN /\ last' = Completed("verify", FALSE, "none", Response(500, EmptyBody))
          /\ UNCHANGED <<procs, gatewayCalls>>
     ELSE /\ procs' = [procs EXCEPT ![i] =
                         [pc |-> "verify_wait",
                          payment |-> PaymentByTxRef(payments, tx_ref)]]
          /\ gatewayCalls' = gatewayCalls + 1
          /\ UNCHANGED last
  /\ clock' = clock + 1
  /\ UNCHANGED <<calc, bookingStatus, payments, notifications, secretConfigured,
                 taskAvailable>>

\* get, from the gateway's answer to payment.save.
VerifyReply(i, reply) ==
  /\ procs[i].pc = "verify_wait"
  /\ LET payment == procs[i].payment
     IN IF ~VerifyAnswered(reply)
        THEN /\ last' = Completed("verify", TRUE, "none", Response(502, EmptyBody))
             /\ procs' = [procs EXCEPT ![i] = Idle]
             /\ UNCHANGED payments
        ELSE IF VerifySucceeded(reply.body)
        THEN LET ch == SuccessChanges(payment, reply.body, clock)
             IN /\ payments' = SavePayment(payments, payment.tx_ref, ch)
                /\ procs' = [procs EXCEPT ![i] =
                               [pc |-> "verify_saved", payment |-> ch @@ payment]]
                /\ UNCHANGED last
        ELSE LET ch == FailureChanges(payment, reply.body, clock)
             IN /\ payments' = SavePayment(payments, payment.tx_ref, ch)
                /\ last' = Completed("verify", TRUE, "none",
                                      VerifyFailed(ch @@ payment, reply.body))
                /\ procs' = [procs EXCEPT ![i] = Idle]
  /\ UNCHANGED <<calc, bookingStatus, notifications, gatewayCalls, clock,
                 secretConfigured, taskAvailable>>

\* get: booking = payment.booking; booking.save.
VerifyConfirm(i) ==
  /\ procs[i].pc = "verify_saved"
  /\ bookingStatus' = SaveBookingConfirmed(bookingStatus, procs[i].payment.booking)
  /\ procs' = [procs EXCEPT ![i].pc = "verify_booked"]
  /\ UNCHANGED <<calc, payments, notifications, gatewayCalls, clock,
                 secretConfigured, taskAvailable, last>>

\* get, from the enqueue to the 200 response.
VerifyFinish(i, outcome) ==
  /\ procs[i].pc = "verify_booked"
  /\ notifications' = Enqueue(notifications, taskAvailable, outcome,
                              procs[i].payment.booking, procs[i].payment.tx_ref)
  /\ last' = Completed("verify", TRUE,
                        IF ~taskAvailable THEN "unavailable" ELSE outcome,
                        AfterEnqueue(taskAvailable, outcome,
                                     VerifyOk(procs[i].payment)))
  /\ procs' = [procs EXCEPT ![i] = Idle]
  /\ UNCHANGED <<calc, bookingStatus, payments, gatewayCalls, clock,
                 secretConfigured, taskAvailable>>

NextConc ==
  \/ \E i \in DOMAIN procs, booking_id \in RequestBookingIds,
        email \in PayloadEmails, user_email \in UserEmails,
        hex \in HexSuffixes :
       InitStart(i, booking_id, email, user_email, hex)
  \/ \E i \in DOMAIN procs, reply \in ConcInitReplies : InitReply(i, reply)
  \/ \E i \in DOMAIN procs : InitFinish(i)
  \/ \E i \in DOMAIN procs, tx_ref \in RequestTxRefs : VerifyStart(i, tx_ref)
  \/ \E i \in DOMAIN procs, reply \in ConcVerifyReplies : VerifyReply(i, reply)
  \/ \E i \in DOMAIN procs : VerifyConfirm(i)
  \/ \E i \in DOMAIN procs, outcome \in EnqueueOutcomes :
       VerifyFinish(i, outcome)

SpecConc == Init /\ [][NextConc]_vars

\* -------------------------------------------------------- amount calculator
\* Listing.price_per_night is a DecimalField with two decimal places.
Prices == { Dec(0, 2), Dec(1, 2), Dec(2550, 2), Dec(10000, 2), Dec(33333, 2) }
Days == 0..MaxDay

\* The bookings the calculator is applied to: every price with every start
\* and end date, the end also on or before the start.
AmountInputs ==
  [price_per_night : Prices, start_date : Days, end_date : Days]

InitAmount ==
  /\ bookingStatus = [b \in BookingIds |-> "pending"]
  /\ payments = {}
  /\ notifications = <<>>
  /\ gatewayCalls = 0
  /\ clock = 0
  /\ secretConfigured = TRUE
  /\ taskAvailable = TRUE
  /\ procs = [i \in 1..MaxInFlight |-> Idle]
  /\ last = NoRequest
  /\ \E booking \in AmountInputs :
       calc = [booking |-> booking, amount |-> NoDecimal, done |-> FALSE]

\* amount = _calculate_booking_amount(booking)
Calculate ==
  /\ ~calc.done
  /\ calc' = [calc EXCEPT !.amount = CalculateBookingAmount(calc.booking),
                          !.done = TRUE]
  /\ UNCHANGED <<bookingStatus, payments, notifications, gatewayCalls, clock,
                 secretConfigured, taskAvailable, procs, last>>

NextAmount == Calculate

SpecAmount == InitAmount /\ [][NextAmount]_vars

\* ================================================================== claims
InitInputs ==
  [booking_id : RequestBookingIds, email : PayloadEmails,
   user_email : UserEmails, hex : HexSuffixes, reply : InitReplies]
VerifyInputs ==
  [tx_ref : RequestTxRefs, reply : VerifyReplies, outcome : EnqueueOutcomes]

\* The step is the Initialize request x / the Verify request x.
IsInitialize(x) == Initialize(x.booking_id, x.email, x.user_email, x.hex, x.reply)
IsVerify(x) == Verify(x.tx_ref, x.reply, x.outcome)

RowsOfBooking(pays, b) == { p \in pays : p.booking = b }
RowsOfTxRef(pays, tx_ref) == { p \in pays : p.tx_ref = tx_ref }
EmailGiven(x) == x.email # "" \/ x.user_email # ""

\* The gateway accepted the initialize call: HTTP 200/201, status "success"
\* and a data object.
GatewayAccepts(reply) ==
  /\ reply.kind = "http"
  /\ reply.code \in {200, 201}
  /\ reply.body.status = "success"
  /\ reply.body.data.present

\* The gateway answered verify with HTTP 200.
Answered200(reply) == reply.kind = "http" /\ reply.code = 200

\* The verify answer has top-level status "success" and data.status "success".
SaysSuccess(reply) ==
  /\ reply.body.status = "success"
  /\ reply.body.data.present
  /\ reply.body.data.status = "success"

\* C1: in every reachable state a Booking's status is confirmed if and only
\* if its Payment's status is success.
C1_ConfirmedIffPaymentSuccess ==
  \A b \in BookingIds :
    bookingStatus[b] = "confirmed"
      <=> \E p \in RowsOfBooking(payments, b) : p.status = "success"

\* C2 (as stated): every Initialize request for a booking whose Payment has
\* status success is answered 400 with the existing tx_ref in the response,
\* calls no gateway, creates no row and changes no Payment and no Booking.
C2_DuplicateAlwaysCarriesTxRef ==
  [][last'.op = "init" =>
     \A b \in BookingIds :
       (\E p \in RowsOfBooking(payments, b) : p.status = "success") =>
       \A x \in InitInputs :
         (x.booking_id = b /\ IsInitialize(x))
         => /\ last'.response.code = 400
            /\ \E p \in RowsOfBooking(payments, b) :
                 last'.response.body.tx_ref = p.tx_ref
            /\ gatewayCalls' = gatewayCalls
            /\ payments' = payments
            /\ bookingStatus' = bookingStatus]_vars

\* C2 (amended): every Initialize request for a booking whose Payment has
\* status success is answered 400, calls no gateway, creates no row and
\* changes no Payment and no Booking; the response carries the existing
\* tx_ref whenever an email is resolvable from the payload or the user.
C2_DuplicateRejected ==
  [][last'.op = "init" =>
     \A b \in BookingIds :
       (\E p \in RowsOfBooking(payments, b) : p.status = "success") =>
       \A x \in InitInputs :
         (x.booking_id = b /\ IsInitialize(x))
         => /\ last'.response.code = 400
            /\ EmailGiven(x) =>
                 \E p \in RowsOfBooking(payments, b) :
                   last'.response.body.tx_ref = p.tx_ref
            /\ gatewayCalls' = gatewayCalls
            /\ payments' = payments
            /\ bookingStatus' = bookingStatus]_vars

\* C2 witness: an Initialize was refused as a duplicate, with the tx_ref of
\* the successful Payment in the response and no gateway call.
C2_Witness ==
  /\ last.op = "init"
  /\ last.response.code = 400
  /\ ~last.called
  /\ \E p \in payments :
       p.status = "success" /\ last.response.body.tx_ref = p.tx_ref

\* C3: once a Payment's status is success or failed, no step changes it.
C3_TerminalStatusKept ==
  [][\A p \in payments :
       p.status \in {"success", "failed"}
       => \E q \in payments' : q.tx_ref = p.tx_ref /\ q.status = p.status]_vars

\* C4: a Verify on a tx_ref whose Payment is already success (its first
\* Verify succeeded) leaves status, chapa_reference and raw_verify_response
\* of that Payment unchanged and enqueues no notification.
C4_ReverifyIsNoOp ==
  [][last'.op = "verify" =>
     \A x \in VerifyInputs :
       ( /\ \E p \in RowsOfTxRef(payments, x.tx_ref) : p.status = "success"
         /\ IsVerify(x) )
       => /\ \A p \in RowsOfTxRef(payments, x.tx_ref) :
               \E q \in payments' :
                 /\ q.tx_ref = p.tx_ref
                 /\ q.status = p.status
                 /\ q.chapa_reference = p.chapa_reference
                 /\ q.raw_verify_response = p.raw_verify_response
          /\ notifications' = notifications]_vars

\* C5: in every reachable state, under any interleaving of Initialize and
\* Verify requests, each Booking has at most one Payment row.
C5_AtMostOnePayment ==
  \A b \in BookingIds : Cardinality(RowsOfBooking(payments, b)) <= 1

\* C5 witness: two Initialize requests for one booking ran concurrently; the
\* gateway accepted both, one inserted its row (and has not saved the Booking
\* yet) and the database refused the other's INSERT.
C5_Witness ==
  /\ last.op = "init"
  /\ last.called
  /\ last.response.code = 500
  /\ \E i \in DOMAIN procs :
       /\ procs[i].pc = "init_created"
       /\ procs[i].payment \in payments

\* The step is an Initialize / a Verify that issued its gateway call.
InitializeCalled == last'.op = "init" /\ gatewayCalls' = gatewayCalls + 1
VerifyCalled == last'.op = "verify" /\ gatewayCalls' = gatewayCalls + 1

\* C6: an Initialize that passes validation and whose gateway call is
\* accepted creates exactly one new pending Payment for the booking, with the
\* generated tx_ref, the computed amount and the gateway's checkout_url,
\* reference and raw response, sets the Booking to pending and returns 201
\* with that tx_ref and checkout_url.
C6_AcceptedInitializeCreates ==
  [][InitializeCalled =>
     \A x \in InitInputs :
       ( /\ x.booking_id \in BookingIds
         /\ EmailGiven(x)
         /\ ~\E p \in RowsOfBooking(payments, x.booking_id) : p.status = "success"
         /\ GatewayAccepts(x.reply)
         /\ IsInitialize(x) )
       => /\ \E q \in payments' \ payments :
               /\ payments' = payments \cup {q}
               /\ q.booking = x.booking_id
               /\ q.status = "pending"
               /\ q.tx_ref = TxRef(x.booking_id, x.hex)
               /\ q.amount = CalculateBookingAmount(BookingTable[x.booking_id])
               /\ q.checkout_url = Get(x.reply.body.data.checkout_url, "")
               /\ q.chapa_reference = Get(x.reply.body.data.reference, "")
               /\ q.raw_initialize_response = x.reply.body
               /\ last'.response.body.tx_ref = q.tx_ref
               /\ last'.response.body.checkout_url = q.checkout_url
          /\ bookingStatus'[x.booking_id] = "pending"
          /\ last'.response.code = 201]_vars

\* C7: a Verify for an existing tx_ref that receives an HTTP 200 answer with
\* status "success" and data.status "success" ends with the Payment success,
\* its chapa_reference the answer's reference if it has one (else unchanged),
\* the Payment's Booking confirmed, and response 200.
C7_VerifySuccess ==
  [][VerifyCalled =>
     \A x \in VerifyInputs :
       ( /\ Answered200(x.reply)
         /\ SaysSuccess(x.reply)
         /\ IsVerify(x) )
       => \E old \in RowsOfTxRef(payments, x.tx_ref),
             new \in RowsOfTxRef(payments', x.tx_ref) :
            /\ new.status = "success"
            /\ new.chapa_reference =
                 IF x.reply.body.data.reference \in {Missing, ""}
                 THEN old.chapa_reference
                 ELSE x.reply.body.data.reference
            /\ bookingStatus'[new.booking] = "confirmed"
            /\ last'.response.code = 200]_vars

\* C7 witness: a Verify answered 200 after the gateway reported success
\* without a reference; the Payment is success and kept the reference it got
\* at initialize, and its Booking is confirmed.
C7_Witness ==
  /\ last.op = "verify"
  /\ last.response.code = 200
  /\ \E p \in payments :
       /\ p.status = "success"
       /\ p.raw_verify_response.data.reference = Missing
       /\ p.chapa_reference = "CH-1"
       /\ bookingStatus[p.booking] = "confirmed"

\* C8: a Verify for an existing tx_ref that receives an HTTP 200 answer that
\* is not (status "success" and data.status "success") sets the Payment to
\* failed, leaves every Booking's status as it was (none becomes cancelled),
\* and answers 400 with the gateway's data.status.
C8_VerifyFailure ==
  [][VerifyCalled =>
     \A x \in VerifyInputs :
       ( /\ Answered200(x.reply)
         /\ ~SaysSuccess(x.reply)
         /\ IsVerify(x) )
       => /\ \E new \in RowsOfTxRef(payments', x.tx_ref) : new.status = "failed"
          /\ bookingStatus' = bookingStatus
          /\ \A b \in BookingIds :
               bookingStatus'[b] = "cancelled" => bookingStatus[b] = "cancelled"
          /\ last'.response.code = 400
          /\ last'.response.body.raw_chapa_status =
               IF x.reply.body.data.present
               THEN x.reply.body.data.status ELSE Missing]_vars

\* C8 witness: a Verify answered 400 reporting the gateway's sub-status
\* "pending"; the Payment is failed and its Booking still pending.
C8_Witness ==
  /\ last.op = "verify"
  /\ last.response.code = 400
  /\ last.response.body.raw_chapa_status = "pending"
  /\ \E p \in payments :
       p.status = "failed" /\ bookingStatus[p.booking] = "pending"

\* C9: when the gateway's initialize call fails (transport failure, HTTP
\* status outside {200,201}, status not "success", or no data object) the
\* request returns 502, no Payment row is created and no Booking changes.
C9_GatewayFailureCreatesNothing ==
  [][InitializeCalled =>
     \A x \in InitInputs :
       (~GatewayAccepts(x.reply) /\ IsInitialize(x))
       => /\ last'.response.code = 502
          /\ payments' = payments
          /\ bookingStatus' = bookingStatus]_vars

\* C9 witness: an Initialize called the gateway, was answered 502, and the
\* Payment table is still empty.
C9_Witness ==
  /\ last.op = "init"
  /\ last.called
  /\ last.response.code = 502
  /\ payments = {}

\* C10: an Initialize on a booking whose Payment is pending or failed, with a
\* gateway that accepts the call, returns 201 and adds a new pending Payment
\* for the booking while the earlier Payment row remains.
C10_RetryAddsPayment ==
  [][InitializeCalled =>
     \A x \in InitInputs :
       ( /\ x.booking_id \in BookingIds
         /\ EmailGiven(x)
         /\ \E p \in RowsOfBooking(payments, x.booking_id) :
              p.status \in {"pending", "failed"}
         /\ GatewayAccepts(x.reply)
         /\ IsInitialize(x) )
       => /\ last'.response.code = 201
          /\ payments \subseteq payments'
          /\ \E q \in payments' \ payments :
               q.booking = x.booking_id /\ q.status = "pending"]_vars

\* The booking and the tx_ref of an Initialize request that is in flight.
InFlightInit(p) == p.pc \in {"init_wait", "init_created"}
BookingOfInit(p) == IF p.pc = "init_wait" THEN p.booking ELSE p.payment.booking
TxRefOfInit(p) == IF p.pc = "init_wait" THEN p.tx_ref ELSE p.payment.tx_ref

\* C11: two Initialize requests for one booking run concurrently, the booking
\* had no Payment before them and the gateway accepts both; then each of
\* them inserts its pending Payment row (two rows for the booking) and goes
\* on to answer 201.
C11_ConcurrentInitializeBothSucceed ==
  [][\A i \in DOMAIN procs, reply \in ConcInitReplies :
       ( /\ procs[i].pc = "init_wait"
         /\ GatewayAccepts(reply)
         /\ \E j \in DOMAIN procs \ {i} :
              /\ InFlightInit(procs[j])
              /\ BookingOfInit(procs[j]) = procs[i].booking
              /\ TxRefOfInit(procs[j]) # procs[i].tx_ref
         /\ \A p \in RowsOfBooking(payments, procs[i].booking) :
              \E j \in DOMAIN procs \ {i} :
                procs[j].pc = "init_created" /\ procs[j].payment = p
         /\ InitReply(i, reply) )
       => /\ procs'[i].pc = "init_created"
          /\ \E q \in payments' \ payments :
               /\ q.booking = procs[i].booking
               /\ q.status = "pending"
               /\ payments' = payments \cup {q}]_vars

\* C12: every Verify on an existing tx_ref issues its own gateway call, also
\* while another Verify on that tx_ref is in flight; a Verify that is
\* answered HTTP 200 writes its own outcome (status and raw response) over
\* whatever the row holds, including what a concurrent Verify wrote; and a
\* Payment's status and raw_verify_response change in no other step, so
\* they are always those of the last such write.
C12_LastVerifyWriteWins ==
  [][/\ \A i \in DOMAIN procs, tx_ref \in RequestTxRefs :
          ( /\ secretConfigured
            /\ HasTxRef(payments, tx_ref)
            /\ VerifyStart(i, tx_ref) )
          => gatewayCalls' = gatewayCalls + 1
     /\ \A i \in DOMAIN procs, reply \in ConcVerifyReplies :
          ( /\ procs[i].pc = "verify_wait"
            /\ Answered200(reply)
            /\ VerifyReply(i, reply) )
          => \E new \in RowsOfTxRef(payments', procs[i].payment.tx_ref) :
               /\ new.status = IF SaysSuccess(reply) THEN "success" ELSE "failed"
               /\ new.raw_verify_response = reply.body
     /\ \A p \in payments :
          \/ \E q \in payments' :
               /\ q.tx_ref = p.tx_ref
               /\ q.status = p.status
               /\ q.raw_verify_response = p.raw_verify_response
          \/ \E i \in DOMAIN procs :
               /\ procs[i].pc = "verify_wait"
               /\ procs[i].payment.tx_ref = p.tx_ref
               /\ procs'[i].pc # "verify_wait"]_vars

\* C12 witness: three gateway calls were made (one initialize, two verifies
\* of one tx_ref); one Verify wrote success and is still in flight, and the
\* row now holds failed with the answer of the other Verify, whose write
\* came later.
C12_Witness ==
  /\ gatewayCalls = 3
  /\ \E i \in DOMAIN procs, p \in payments :
       /\ procs[i].pc \in {"verify_saved", "verify_booked"}
       /\ procs[i].payment.status = "success"
       /\ p.tx_ref = procs[i].payment.tx_ref
       /\ p.status = "failed"
       /\ p.raw_verify_response.data.status = "pending"

\* Worker i entered / left the position pc in this step.
Entered(i, pc) == procs[i].pc # pc /\ procs'[i].pc = pc
Left(i, pc) == procs[i].pc = pc /\ procs'[i].pc # pc

\* C13: the notification queue changes only in the enqueue step of a Verify
\* that took the success branch, which comes after that Verify's write of
\* Payment.status = success and after its write of Booking.status =
\* confirmed; each such Verify reaches the enqueue once and puts exactly one
\* message (booking id, tx_ref) on the queue, none if the task is unavailable
\* or the enqueue raises; a Verify ending in the failure branch, a gateway
\* error or 404 leaves the queue as it was.
C13_EnqueueOnlyAfterSuccess ==
  [][/\ notifications' # notifications
          => \E i \in DOMAIN procs :
               /\ Left(i, "verify_booked")
               /\ notifications' =
                    Append(notifications,
                           [booking_id |-> procs[i].payment.booking,
                            tx_ref |-> procs[i].payment.tx_ref])
     /\ \A i \in DOMAIN procs :
          /\ Entered(i, "verify_saved")
               => /\ procs[i].pc = "verify_wait"
                  /\ \E p \in RowsOfTxRef(payments', procs[i].payment.tx_ref) :
                       p.status = "success"
          /\ Entered(i, "verify_booked")
               => /\ procs[i].pc = "verify_saved"
                  /\ bookingStatus'[procs[i].payment.booking] = "confirmed"
          /\ Left(i, "verify_booked")
               => /\ procs'[i].pc = "idle"
                  /\ last'.op = "verify"
                  /\ last'.response.code = 200
                  /\ last'.enqueue \in {"ok", "raise", "unavailable"}
                  /\ Len(notifications') =
                       Len(notifications)
                         + (IF taskAvailable /\ last'.enqueue = "ok"
                            THEN 1 ELSE 0)
     /\ (last' # last /\ last'.response.code # 200)
          => notifications' = notifications]_vars

\* C13 witness: a Verify answered 200 having enqueued; the queue holds one
\* message, for a Payment that is success and whose Booking is confirmed.
C13_Witness ==
  /\ last.op = "verify"
  /\ last.response.code = 200
  /\ last.enqueue = "ok"
  /\ Len(notifications) = 1
  /\ \E p \in payments :
       /\ notifications[1] = [booking_id |-> p.booking, tx_ref |-> p.tx_ref]
       /\ p.status = "success"
       /\ bookingStatus[p.booking] = "confirmed"

\* C14: a Verify that takes the success branch while the task is unavailable
\* or the enqueue raises still answers 200, leaves the Payment success and
\* the Booking confirmed, and puts nothing on the queue.
C14_EnqueueFailureIsSwallowed ==
  [][VerifyCalled =>
     \A x \in VerifyInputs :
       ( /\ Answered200(x.reply)
         /\ SaysSuccess(x.reply)
         /\ (~taskAvailable \/ x.outcome = "raise")
         /\ IsVerify(x) )
       => /\ last'.response.code = 200
          /\ \E new \in RowsOfTxRef(payments', x.tx_ref) :
               /\ new.status = "success"
               /\ bookingStatus'[new.booking] = "confirmed"
          /\ notifications' = notifications]_vars

\* C14 witness: a Verify answered 200 although its enqueue raised; the
\* Payment is success, its Booking confirmed and the queue empty.
C14_Witness ==
  /\ last.op = "verify"
  /\ last.enqueue = "raise"
  /\ last.response.code = 200
  /\ notifications = <<>>
  /\ \E p \in payments :
       p.status = "success" /\ bookingStatus[p.booking] = "confirmed"

\* C15: a Verify whose gateway call fails at transport level or is answered
\* with an HTTP status other than 200 returns 502; every Payment keeps its
\* status, every Booking keeps its status and nothing is enqueued.
C15_VerifyGatewayError ==
  [][VerifyCalled =>
     \A x \in VerifyInputs :
       (~Answered200(x.reply) /\ IsVerify(x))
       => /\ last'.response.code = 502
          /\ \A p \in payments :
               \E q \in payments' : q.tx_ref = p.tx_ref /\ q.status = p.status
          /\ \A q \in payments' : \E p \in payments : p.tx_ref = q.tx_ref
          /\ bookingStatus' = bookingStatus
          /\ notifications' = notifications]_vars

\* C15 witness: a Verify called the gateway and answered 502 on a Payment
\* that an earlier Verify had set to success; it is still success and its
\* Booking still confirmed.
C15_Witness ==
  /\ last.op = "verify"
  /\ last.called
  /\ last.response.code = 502
  /\ \E p \in payments :
       p.status = "success" /\ bookingStatus[p.booking] = "confirmed"

C17_NoSecretNoCall ==
  [][(~secretConfigured /\ clock' # clock)
       => /\ last'.op \in {"init", "verify"}
          /\ ~last'.called
          /\ gatewayCalls' = gatewayCalls
          /\ payments' = payments
          /\ bookingStatus' = bookingStatus]_vars

\* C17 witness: with the key unset, a Verify of an existing Payment ended in
\* the configuration error without a gateway call.
C17_Witness ==
  /\ ~secretConfigured
  /\ last.op = "verify"
  /\ ~last.called
  /\ last.response.code = 500
  /\ payments # {}

\* C18: for every booking, with nights = max(end_date - start_date, 0), the
\* calculator returns price_per_night times max(nights, 1) with two decimal
\* places: the price of one night when the span is zero or negative, and
\* price_per_night times n when nights = n > 0.
C18_AmountIsPriceTimesNights ==
  calc.done =>
    LET span == calc.booking.end_date - calc.booking.start_date
        price == calc.booking.price_per_night
    IN /\ calc.amount.s = 2
       /\ span <= 0 => calc.amount.u = price.u
       /\ span > 0 => calc.amount.u = price.u * span

\* C18 witness: the amount of a booking that ends two days before it starts
\* was computed and is its price for one night, 25.50.
C18_Witness ==
  /\ calc.done
  /\ calc.booking.end_date - calc.booking.start_date = -2
  /\ calc.booking.price_per_night = Dec(2550, 2)
  /\ calc.amount = Dec(2550, 2)

\* The step left the database and the gateway untouched.
NothingDone ==
  /\ gatewayCalls' = gatewayCalls
  /\ payments' = payments
  /\ bookingStatus' = bookingStatus

\* The requests that can arrive under SpecConc, and the step in which worker
\* i takes up the Initialize request x / the Verify of tx_ref.
StartInputs ==
  [booking_id : RequestBookingIds, email : PayloadEmails,
   user_email : UserEmails, hex : HexSuffixes]
IsInitStart(i, x) == InitStart(i, x.booking_id, x.email, x.user_email, x.hex)

\* C19: an Initialize whose booking id matches no Booking, and a Verify whose
\* tx_ref matches no Payment, is answered 404 whatever else the request
\* carries and whatever other requests are in flight, with no gateway call,
\* no new Payment and no change to a Payment or a Booking.
C19_LookupFailureIs404 ==
  [][clock' # clock =>
     \A i \in DOMAIN procs :
       /\ \A x \in StartInputs :
            ( /\ x.booking_id # 0
              /\ x.booking_id \notin BookingIds
              /\ IsInitStart(i, x) )
            => /\ last'.op = "init"
               /\ last'.response.code = 404
               /\ NothingDone
       /\ \A tx_ref \in RequestTxRefs :
            ( /\ RowsOfTxRef(payments, tx_ref) = {}
              /\ VerifyStart(i, tx_ref) )
            => /\ last'.op = "verify"
               /\ last'.response.code = 404
               /\ NothingDone]_vars

\* C19 witness: a request was answered 404 without a gateway call while the
\* Payment table holds a row (a Verify of an unknown tx_ref, or an
\* Initialize of an unknown booking).
C19_Witness ==
  /\ last.op \in {"init", "verify"}
  /\ last.response.code = 404
  /\ ~last.called
  /\ payments # {}

\* C20: an Initialize for an existing booking with no email in the payload
\* and none on the user, and an Initialize without a booking id, is answered
\* 400 with no gateway call, no new Payment and no change to a Payment or a
\* Booking.
C20_MissingInputIs400 ==
  [][clock' # clock =>
     \A i \in DOMAIN procs, x \in StartInputs :
       ( /\ \/ x.booking_id = 0
            \/ x.booking_id \in BookingIds /\ ~EmailGiven(x)
         /\ IsInitStart(i, x) )
       => /\ last'.op = "init"
          /\ last'.response.code = 400
          /\ NothingDone]_vars

\* C20 witness: an Initialize was answered 400 with no tx_ref in the
\* response (so not as a duplicate) and no gateway call.
C20_Witness ==
  /\ last.op = "init"
  /\ last.response.code = 400
  /\ last.response.body.tx_ref = Missing
  /\ ~last.called
  /\ payments # {}

\* Worker i is handling a Verify request.
InFlightVerify(p) == p.pc \in {"verify_wait", "verify_saved", "verify_booked"}

\* Row q is row p except, at most, in the columns Verify writes.
SameButVerifyColumns(p, q) ==
  /\ q.tx_ref = p.tx_ref
  /\ q.booking = p.booking
  /\ q.amount = p.amount
  /\ q.currency = p.currency
  /\ q.checkout_url = p.checkout_url
  /\ q.raw_initialize_response = p.raw_initialize_response

\* C21: no step changes the tx_ref, amount, currency, checkout_url,
\* raw_initialize_response or booking of an existing Payment; a step of a
\* Verify request adds no row, changes no Payment but the one with its
\* tx_ref and no Booking but that Payment's; and a row is inserted with the
\* tx_ref generated and the amount computed by its Initialize.
C21_VerifyFrame ==
  [][/\ \A p \in payments : \E q \in payments' : SameButVerifyColumns(p, q)
     /\ \A i \in DOMAIN procs :
          /\ (InFlightVerify(procs[i]) /\ procs'[i] # procs[i])
               => /\ \A q \in payments' :
                       \E p \in payments :
                         /\ p.tx_ref = q.tx_ref
                         /\ p.tx_ref # procs[i].payment.tx_ref => q = p
                  /\ \A b \in BookingIds :
                       b # procs[i].payment.booking
                         => bookingStatus'[b] = bookingStatus[b]
          /\ \A tx_ref \in RequestTxRefs :
               VerifyStart(i, tx_ref)
                 => payments' = payments /\ bookingStatus' = bookingStatus
          /\ Entered(i, "init_created")
               => \E q \in payments' \ payments :
                    /\ q.tx_ref = procs[i].tx_ref
                    /\ q.amount =
                         CalculateBookingAmount(BookingTable[procs[i].booking])]_vars

\* C21 witness: two bookings have a Payment; a Verify set the Payment of
\* booking 1 to success with the gateway's reference, and the Payment of
\* booking 2 is as it was created, its Booking still pending.
C21_Witness ==
  /\ bookingStatus[1] = "confirmed"
  /\ bookingStatus[2] = "pending"
  /\ \E p, q \in payments :
       /\ p.booking = 1
       /\ p.status = "success"
       /\ p.chapa_reference = "CH-2"
       /\ p.amount = Dec(30000, 2)
       /\ q.booking = 2
       /\ q.status = "pending"
       /\ q.raw_verify_response = NullJson

\* C22: every message on the notification queue carries exactly the
\* parameters the task send_payment_confirmation_email takes, so the task
\* can be called with it.
C22_EnqueuedMessageAccepted ==
  \A k \in 1..Len(notifications) : DOMAIN notifications[k] = TaskParameters

\* C23: once a Booking's status is confirmed, no step of an Initialize or a
\* Verify request, in any interleaving, sets it to another status.
C23_ConfirmedIsAbsorbing ==
  [][\A b \in BookingIds :
       bookingStatus[b] = "confirmed" => bookingStatus'[b] = "confirmed"]_vars

\* The step is a Verify of tx_ref that was answered HTTP 200 with top-level
\* status "success" and data.status "success".
IsConfirmingVerify(tx_ref) ==
  /\ last'.op = "verify"
  /\ \E x \in VerifyInputs :
       /\ x.tx_ref = tx_ref
       /\ Answered200(x.reply)
       /\ SaysSuccess(x.reply)
       /\ IsVerify(x)

\* C24: a Payment's status becomes success, and a Booking's status becomes
\* confirmed, only in a Verify of that Payment's own tx_ref whose gateway
\* call was answered HTTP 200 with status "success" and data.status
\* "success"; a Verify with any other gateway outcome, and an Initialize,
\* never makes a Payment success or a Booking confirmed.
C24_SuccessOnlyByGateway ==
  [][/\ \A q \in payments' :
          ( /\ q.status = "success"
            /\ ~\E p \in payments : p.tx_ref = q.tx_ref /\ p.status = "success" )
          => IsConfirmingVerify(q.tx_ref)
     /\ \A b \in BookingIds :
          (bookingStatus'[b] = "confirmed" /\ bookingStatus[b] # "confirmed")
          => \E p \in RowsOfBooking(payments, b) : IsConfirmingVerify(p.tx_ref)
     /\ VerifyCalled =>
          \A x \in VerifyInputs :
            ( /\ ~(Answered200(x.reply) /\ SaysSuccess(x.reply))
              /\ IsVerify(x) )
            => /\ \A q \in payments' :
                    q.status = "success"
                      => \E p \in payments :
                           p.tx_ref = q.tx_ref /\ p.status = "success"
               /\ \A b \in BookingIds :
                    bookingStatus'[b] = "confirmed"
                      => bookingStatus[b] = "confirmed"]_vars

\* C24 witness: after one Initialize and one Verify (two gateway calls) the
\* Payment is success and its Booking confirmed, and the Payment holds the
\* gateway's answer with status "success" and data.status "success".
C24_Witness ==
  /\ gatewayCalls = 2
  /\ last.op = "verify"
  /\ \E p \in payments :
       /\ p.status = "success"
       /\ bookingStatus[p.booking] = "confirmed"
       /\ p.raw_verify_response.status = "success"
       /\ p.raw_verify_response.data.status = "success"

\* C25: an Initialize request whose gateway call is accepted (HTTP 200/201,
\* status "success", data present) ends with a Payment row holding the
\* tx_ref it sent to the gateway and with response 201, also when the
\* booking already has a pending or failed Payment.
C25_NoOrphanedTransaction ==
  [][InitializeCalled =>
     \A x \in InitInputs :
       (GatewayAccepts(x.reply) /\ IsInitialize(x))
       => /\ last'.response.code = 201
          /\ RowsOfTxRef(payments', TxRef(x.booking_id, x.hex)) # {}]_vars

====
